---- MODULE Spec2Model ----
(***************************************************************************)
(* Model of sashite/pin.go: the PIN (Piece Identifier Notation) codec.     *)
(*                                                                         *)
(* A byte is an integer in 0..255, a Go string is a sequence of bytes, a   *)
(* rune is an integer.  An Identifier is the record                        *)
(*   [abbr, side, state, terminal]                                         *)
(* and an error is the name of its sentinel ("nil" for no error).          *)
(*                                                                         *)
(* A behaviour is one client run.  It starts with Parse(s) of an input,    *)
(* or with NewIdentifierWithOptions(args), or with NewIdentifier(args).    *)
(* After Parse the client may call Validate, IsValid and MustParse on the  *)
(* same input.  An Identifier that was returned without error may be       *)
(* rendered with String() and the rendering parsed again, or transformed   *)
(* (Enhance, Flip, WithAbbr, ...) any number of times.  After String() the *)
(* client may read the three parts of the rendering with Prefix(),         *)
(* Letter() and Suffix().                                                  *)
(*                                                                         *)
(* Three more kinds of run start from other inputs: a run that appends a   *)
(* list of Identifiers to a buffer with AppendTo, a run that counts the    *)
(* strings Parse accepts, and the runs of the rune-based Pin type (Parse   *)
(* of a string, or a struct literal, followed by String()).                *)
(***************************************************************************)
EXTENDS Integers, Sequences, FiniteSets, TLC

VARIABLES
    from,   \* how id was obtained: "Parse", "New", "NewIdentifier" or "Transform"
    s,      \* the input string handed to Parse
    args,   \* the arguments handed to the constructor
    pc,     \* position of the client: start, parsed, validated, isvalid,
            \* mustparsed, built, transformed, rendered, reparsed, panicked
    id,     \* the Identifier returned by Parse / the constructor / the transformation
    err,    \* the error returned by Parse, or the panic value of the
            \* constructor or transformation
    out,    \* id.String()
    id2,    \* the Identifier returned by Parse(out)
    err2,   \* the error returned by Parse(out)
    verr,   \* the error returned by Validate(s)
    valid,  \* the result of IsValid(s)
    mp,     \* the outcome of MustParse(s): an Identifier or a panic
    recv,   \* the receiver of the last transformation, as the caller holds it
            \* after the call
    op,     \* the last transformation: its name and its argument
    parts,  \* the results of id.Prefix(), id.Letter() and id.Suffix()
    ids,    \* the Identifiers still to be appended to the buffer
    dst,    \* the buffer as the caller had it before the first AppendTo
    buf,    \* the buffer
    joined, \* the String() values of the appended Identifiers and the
            \* separators, in call order
    census, \* the strings Parse accepted and the Identifiers it returned
    ppc,    \* position of the client of the Pin type: start, literal, parsed,
            \* rendered
    pin,    \* the Pin returned by Parse (Pin), or the struct literal
    perr,   \* the error returned by Parse (Pin)
    pout    \* pin.String()

appendVars == <<ids, dst, buf, joined>>

pinVars == <<ppc, pin, perr, pout>>

vars == <<from, s, args, pc, id, err, out, id2, err2, verr, valid, mp, recv, op,
          parts, appendVars, census, pinVars>>

----------------------------------------------------------------------------
(* Bounds of the model *)

\* longest input string handed to Parse
MaxLen == 4

\* bytes used to build the inputs of length 2..MaxStringLength:
\* NUL, LF, space, '+', '-', '1', 'A', 'K', 'Z', '^', 'a', 'k', 'z',
\* 0x80 (a UTF-8 continuation byte), 0xCC and 0xEF (UTF-8 lead bytes)
SampleBytes == {0, 10, 32, 43, 45, 49, 65, 75, 90, 94, 97, 107, 122, 128, 204, 239}

AllBytes == 0..255

\* bytes used to build the inputs longer than MaxStringLength:
\* NUL, '+', '1', 'K', '^', 'k', 0x80, 0xCC
LongSampleBytes == {0, 43, 49, 75, 94, 107, 128, 204}

\* the inputs of length n: every string of at most one byte, every string
\* over SampleBytes of 2..3 bytes, and every string over LongSampleBytes of
\* 4..MaxLen bytes
InputsOfLen(n) ==
    IF n <= 1 THEN [1..n -> AllBytes]
    ELSE IF n <= 3 THEN [1..n -> SampleBytes]
    ELSE [1..n -> LongSampleBytes]

\* runes handed to the constructor: the ASCII letters, their neighbours
\* ('@', '[', '`', '{'), NUL, '1', and Cyrillic U+041A
SampleRunes == (65..90) \cup (97..122) \cup {0, 49, 64, 91, 96, 123, 1050}

\* runes handed to WithAbbr: 'A', 'K', 'Z', 'a', 'k', 'z', the neighbours of
\* the letter ranges, NUL, '1', and Cyrillic U+041A
SampleAbbrs == {65, 75, 90, 97, 107, 122, 0, 49, 64, 91, 96, 123, 1050}

\* Side and State are uint8: the legal values and one illegal value each
SampleSides == 0..2
SampleStates == 0..3

\* longest list of Identifiers appended to one buffer
MaxIds == 3

\* initial contents of the buffer handed to AppendTo: empty, "P: ", "+k^"
SampleBuffers == {<<>>, <<80, 58, 32>>, <<43, 107, 94>>}

\* the separator the caller puts between two renderings: a space
Separator == 32

\* bytes of the candidate strings of the census: the bytes of the notation
\* and the other bytes of SampleBytes
CensusBytes == (65..90) \cup (97..122) \cup SampleBytes

\* bytes used to build the inputs of Parse (Pin): space, '+', '-', '1', 'K',
\* '^', 'n', and the bytes of U+041A (0xD0 0x9A) and U+043A (0xD0 0xBA)
PinSampleBytes == {32, 43, 45, 49, 75, 94, 110, 154, 186, 208}

\* bytes used to build the inputs of Parse (Pin) longer than 3 bytes
LongPinSampleBytes == {43, 75, 94, 154, 208}

PinInputsOfLen(n) ==
    IF n <= 3 THEN [1..n -> PinSampleBytes] ELSE [1..n -> LongPinSampleBytes]

\* Abbr of the Pin literals: 'K', 'N', 'k', 'n', U+041A, U+043A
SamplePinAbbrs == {75, 78, 107, 110, 1050, 1082}

----------------------------------------------------------------------------
(* constants.go *)

First == 0
Second == 1

Normal == 0
Enhanced == 1
Diminished == 2

MaxStringLength == 3

enhancedPrefix == 43      \* '+'
diminishedPrefix == 45    \* '-'
terminalSuffix == 94      \* '^'

isValidSide(sd) == sd = First \/ sd = Second

isValidState(st) == st = Normal \/ st = Enhanced \/ st = Diminished

\* the letter check of the constructors (A-Z)
isValidAbbr(r) == r >= 65 /\ r <= 90

----------------------------------------------------------------------------
(* Identifier *)

\* Identifier{}: the zero value of the struct
ZeroIdentifier == [abbr |-> 0, side |-> 0, state |-> 0, terminal |-> FALSE]

MkIdentifier(a, sd, st, t) == [abbr |-> a, side |-> sd, state |-> st, terminal |-> t]

ZeroArgs == [abbr |-> 0, side |-> 0, state |-> 0, terminal |-> FALSE]

\* Result of a call that either returns an Identifier or panics with a value
Returned(i) == [id |-> i, panic |-> "nil"]
Panicked(e) == [id |-> ZeroIdentifier, panic |-> e]

\* lowercase runes are normalized to uppercase before validation
ToUpperRune(r) == IF r >= 97 /\ r <= 122 THEN r - 97 + 65 ELSE r

\* mutant: the side is not validated
NewIdentifierWithOptions_NoSideCheck(abbr, side, state, terminal) ==
    LET a == ToUpperRune(abbr)
    IN  IF ~isValidAbbr(a) THEN Panicked("ErrInvalidAbbr")
        ELSE IF ~isValidState(state) THEN Panicked("ErrInvalidState")
        ELSE Returned(MkIdentifier(a, side, state, terminal))

\* mutant: the state is validated before the side
NewIdentifierWithOptions_StateFirst(abbr, side, state, terminal) ==
    LET a == ToUpperRune(abbr)
    IN  IF ~isValidAbbr(a) THEN Panicked("ErrInvalidAbbr")
        ELSE IF ~isValidState(state) THEN Panicked("ErrInvalidState")
        ELSE IF ~isValidSide(side) THEN Panicked("ErrInvalidSide")
        ELSE Returned(MkIdentifier(a, side, state, terminal))

NewIdentifierWithOptions(abbr, side, state, terminal) ==
    LET a == ToUpperRune(abbr)
    IN  IF ~isValidAbbr(a) THEN Panicked("ErrInvalidAbbr")
        ELSE IF ~isValidSide(side) THEN Panicked("ErrInvalidSide")
        ELSE IF ~isValidState(state) THEN Panicked("ErrInvalidState")
        ELSE Returned(MkIdentifier(a, side, state, terminal))

\* string(r) of Go: the UTF-8 encoding of a rune (runes below U+10000,
\* surrogates apart)
RuneToString(r) ==
    IF r < 0 THEN <<239, 191, 189>>
    ELSE IF r < 128 THEN <<r>>
    ELSE IF r < 2048 THEN <<192 + (r \div 64), 128 + (r % 64)>>
    ELSE <<224 + (r \div 4096), 128 + ((r \div 64) % 64), 128 + (r % 64)>>

\* mutant: the letter is never lowercased
Letter_NoSide(i) == RuneToString(i.abbr)

Letter(i) ==
    LET r == IF i.side = Second THEN i.abbr - 65 + 97 ELSE i.abbr
    IN  RuneToString(r)

\* mutant: a prefix is emitted for every state
AppendTo_AlwaysPrefix(i, d) ==
    LET d1 == CASE i.state = Enhanced -> Append(d, enhancedPrefix)
                [] OTHER              -> Append(d, diminishedPrefix)
        d2 == d1 \o Letter(i)
    IN  IF i.terminal THEN Append(d2, terminalSuffix) ELSE d2

\* mutant: the rendering is written at the start of the buffer (dst[:0])
AppendTo_Truncate(i, d) ==
    LET d1 == CASE i.state = Enhanced   -> <<enhancedPrefix>>
                [] i.state = Diminished -> <<diminishedPrefix>>
                [] OTHER                -> <<>>
        d2 == d1 \o Letter(i)
    IN  IF i.terminal THEN Append(d2, terminalSuffix) ELSE d2

\* mutant: the terminal suffix is never emitted
AppendTo_NoTerminal(i, d) ==
    LET d1 == CASE i.state = Enhanced   -> Append(d, enhancedPrefix)
                [] i.state = Diminished -> Append(d, diminishedPrefix)
                [] OTHER                -> d
    IN  d1 \o Letter(i)

AppendTo(i, d) ==
    LET d1 == CASE i.state = Enhanced   -> Append(d, enhancedPrefix)
                [] i.state = Diminished -> Append(d, diminishedPrefix)
                [] OTHER                -> d
        d2 == d1 \o Letter(i)
    IN  IF i.terminal THEN Append(d2, terminalSuffix) ELSE d2

String(i) == AppendTo(i, <<>>)

\* mutant: the two prefixes are swapped
Prefix_Swapped(i) ==
    CASE i.state = Enhanced   -> <<diminishedPrefix>>
      [] i.state = Diminished -> <<enhancedPrefix>>
      [] OTHER                -> <<>>

Prefix(i) ==
    CASE i.state = Enhanced   -> <<enhancedPrefix>>
      [] i.state = Diminished -> <<diminishedPrefix>>
      [] OTHER                -> <<>>

Suffix(i) == IF i.terminal THEN <<terminalSuffix>> ELSE <<>>

\* mutant: the side is taken from the case of the rune
NewIdentifier_SideFromCase(abbr, side) ==
    NewIdentifierWithOptions(abbr, IF abbr >= 97 /\ abbr <= 122 THEN Second ELSE First,
                             Normal, FALSE)

NewIdentifier(abbr, side) == NewIdentifierWithOptions(abbr, side, Normal, FALSE)

\* mutant: the Identifier is rebuilt from letter and side only
Enhance_Rebuild(i) == MkIdentifier(i.abbr, i.side, Enhanced, FALSE)

Enhance(i) == [i EXCEPT !.state = Enhanced]

\* mutant: the state is stepped down from where it is
Diminish_Relative(i) ==
    IF i.state = Enhanced THEN [i EXCEPT !.state = Normal]
    ELSE [i EXCEPT !.state = Diminished]

Diminish(i) == [i EXCEPT !.state = Diminished]

Normalize(i) == [i EXCEPT !.state = Normal]

\* mutant: the side is set to Second whatever it was
Flip_ToSecond(i) == [i EXCEPT !.side = Second]

Flip(i) ==
    IF i.side = First THEN [i EXCEPT !.side = Second]
    ELSE [i EXCEPT !.side = First]

Terminal(i) == [i EXCEPT !.terminal = TRUE]

NonTerminal(i) == [i EXCEPT !.terminal = FALSE]

\* mutant: the rune is validated in uppercase but stored as given
WithAbbr_StoreRaw(i, abbr) ==
    LET a == ToUpperRune(abbr)
    IN  IF ~isValidAbbr(a) THEN Panicked("ErrInvalidAbbr")
        ELSE Returned([i EXCEPT !.abbr = abbr])

WithAbbr(i, abbr) ==
    LET a == ToUpperRune(abbr)
    IN  IF ~isValidAbbr(a) THEN Panicked("ErrInvalidAbbr")
        ELSE Returned([i EXCEPT !.abbr = a])

\* mutant: the side is stored without validation
WithSide_NoCheck(i, side) == Returned([i EXCEPT !.side = side])

WithSide(i, side) ==
    IF ~isValidSide(side) THEN Panicked("ErrInvalidSide")
    ELSE Returned([i EXCEPT !.side = side])

WithState(i, state) ==
    IF ~isValidState(state) THEN Panicked("ErrInvalidState")
    ELSE Returned([i EXCEPT !.state = state])

WithTerminal(i, terminal) == [i EXCEPT !.terminal = terminal]

----------------------------------------------------------------------------
(* parser.go *)

Ok(i) == [id |-> i, err |-> "nil"]
Fail(e) == [id |-> ZeroIdentifier, err |-> e]

\* mutant: the upper bound of the uppercase range is exclusive
classifyLetter_OffByOne(b) ==
    IF b >= 65 /\ b < 90 THEN [abbr |-> b, side |-> First, ok |-> TRUE]
    ELSE IF b >= 97 /\ b <= 122 THEN [abbr |-> b - 97 + 65, side |-> Second, ok |-> TRUE]
    ELSE [abbr |-> 0, side |-> 0, ok |-> FALSE]

\* mutant: a lowercase letter is given to the first player
classifyLetter_CaseBlind(b) ==
    IF b >= 65 /\ b <= 90 THEN [abbr |-> b, side |-> First, ok |-> TRUE]
    ELSE IF b >= 97 /\ b <= 122 THEN [abbr |-> b - 97 + 65, side |-> First, ok |-> TRUE]
    ELSE [abbr |-> 0, side |-> 0, ok |-> FALSE]

\* mutant: one range 'A'..'z' instead of two
classifyLetter_WideRange(b) ==
    IF b >= 65 /\ b <= 90 THEN [abbr |-> b, side |-> First, ok |-> TRUE]
    ELSE IF b > 90 /\ b <= 122 THEN [abbr |-> b - 97 + 65, side |-> Second, ok |-> TRUE]
    ELSE [abbr |-> 0, side |-> 0, ok |-> FALSE]

\* classifyLetter: (abbr, side, ok)
classifyLetter(b) ==
    IF b >= 65 /\ b <= 90 THEN [abbr |-> b, side |-> First, ok |-> TRUE]
    ELSE IF b >= 97 /\ b <= 122 THEN [abbr |-> b - 97 + 65, side |-> Second, ok |-> TRUE]
    ELSE [abbr |-> 0, side |-> 0, ok |-> FALSE]

\* mutant: the two modifiers are swapped
classifyModifier_Swapped(b) ==
    CASE b = 43 -> [state |-> Diminished, ok |-> TRUE]
      [] b = 45 -> [state |-> Enhanced, ok |-> TRUE]
      [] OTHER  -> [state |-> Normal, ok |-> FALSE]

\* classifyModifier: (state, ok)
classifyModifier(b) ==
    CASE b = 43 -> [state |-> Enhanced, ok |-> TRUE]
      [] b = 45 -> [state |-> Diminished, ok |-> TRUE]
      [] OTHER  -> [state |-> Normal, ok |-> FALSE]

isTerminalMarker(b) == b = 94

parseLength1(b) ==
    LET l == classifyLetter(b)
    IN  IF ~l.ok THEN Fail("ErrMustContainOneLetter")
        ELSE Ok(MkIdentifier(l.abbr, l.side, Normal, FALSE))

\* mutant: the second byte of "letter + terminal" is not checked
parseLength2_NoTerminalCheck(first, second) ==
    LET m  == classifyModifier(first)
        l2 == classifyLetter(second)
        l1 == classifyLetter(first)
    IN  IF m.ok
        THEN IF ~l2.ok THEN Fail("ErrMustContainOneLetter")
             ELSE Ok(MkIdentifier(l2.abbr, l2.side, m.state, FALSE))
        ELSE IF ~l1.ok THEN Fail("ErrInvalidStateModifier")
        ELSE Ok(MkIdentifier(l1.abbr, l1.side, Normal, TRUE))

\* mutant: the letter already classified is returned together with the error
parseLength2_PartialOnError(first, second) ==
    LET m  == classifyModifier(first)
        l2 == classifyLetter(second)
        l1 == classifyLetter(first)
    IN  IF m.ok
        THEN IF ~l2.ok THEN Fail("ErrMustContainOneLetter")
             ELSE Ok(MkIdentifier(l2.abbr, l2.side, m.state, FALSE))
        ELSE IF ~l1.ok THEN Fail("ErrInvalidStateModifier")
        ELSE IF ~isTerminalMarker(second)
             THEN [id  |-> MkIdentifier(l1.abbr, l1.side, Normal, FALSE),
                   err |-> "ErrInvalidTerminalMarker"]
        ELSE Ok(MkIdentifier(l1.abbr, l1.side, Normal, TRUE))

\* mutant: a first byte that is no letter is reported as a missing letter
parseLength2_LetterFirst(first, second) ==
    LET m  == classifyModifier(first)
        l2 == classifyLetter(second)
        l1 == classifyLetter(first)
    IN  IF m.ok
        THEN IF ~l2.ok THEN Fail("ErrMustContainOneLetter")
             ELSE Ok(MkIdentifier(l2.abbr, l2.side, m.state, FALSE))
        ELSE IF ~l1.ok THEN Fail("ErrMustContainOneLetter")
        ELSE IF ~isTerminalMarker(second) THEN Fail("ErrInvalidTerminalMarker")
        ELSE Ok(MkIdentifier(l1.abbr, l1.side, Normal, TRUE))

parseLength2(first, second) ==
    LET m  == classifyModifier(first)
        l2 == classifyLetter(second)
        l1 == classifyLetter(first)
    IN  IF m.ok
        THEN IF ~l2.ok THEN Fail("ErrMustContainOneLetter")
             ELSE Ok(MkIdentifier(l2.abbr, l2.side, m.state, FALSE))
        ELSE IF ~l1.ok
             THEN IF isTerminalMarker(first) THEN Fail("ErrInvalidStateModifier")
                  ELSE Fail("ErrInvalidStateModifier")
        ELSE IF ~isTerminalMarker(second) THEN Fail("ErrInvalidTerminalMarker")
        ELSE Ok(MkIdentifier(l1.abbr, l1.side, Normal, TRUE))

\* mutant: a first byte that is no modifier is always an invalid modifier
parseLength3_NoLetterCheck(first, second, third) ==
    LET m  == classifyModifier(first)
        l2 == classifyLetter(second)
    IN  IF ~m.ok THEN Fail("ErrInvalidStateModifier")
        ELSE IF ~l2.ok THEN Fail("ErrMustContainOneLetter")
        ELSE IF ~isTerminalMarker(third) THEN Fail("ErrInvalidTerminalMarker")
        ELSE Ok(MkIdentifier(l2.abbr, l2.side, m.state, TRUE))

\* mutant: a leading letter is reported as a missing letter
parseLength3_LeadingLetter(first, second, third) ==
    LET m  == classifyModifier(first)
        l1 == classifyLetter(first)
        l2 == classifyLetter(second)
    IN  IF ~m.ok
        THEN IF l1.ok THEN Fail("ErrMustContainOneLetter")
             ELSE Fail("ErrInvalidStateModifier")
        ELSE IF ~l2.ok THEN Fail("ErrMustContainOneLetter")
        ELSE IF ~isTerminalMarker(third) THEN Fail("ErrInvalidTerminalMarker")
        ELSE Ok(MkIdentifier(l2.abbr, l2.side, m.state, TRUE))

\* mutant: a missing letter is reported as an invalid terminal marker
parseLength3_LetterAsTerminal(first, second, third) ==
    LET m  == classifyModifier(first)
        l1 == classifyLetter(first)
        l2 == classifyLetter(second)
    IN  IF ~m.ok
        THEN IF l1.ok THEN Fail("ErrInvalidTerminalMarker")
             ELSE Fail("ErrInvalidStateModifier")
        ELSE IF ~l2.ok THEN Fail("ErrInvalidTerminalMarker")
        ELSE IF ~isTerminalMarker(third) THEN Fail("ErrInvalidTerminalMarker")
        ELSE Ok(MkIdentifier(l2.abbr, l2.side, m.state, TRUE))

\* mutant: the terminal marker is checked before the letter
parseLength3_TerminalFirst(first, second, third) ==
    LET m  == classifyModifier(first)
        l1 == classifyLetter(first)
        l2 == classifyLetter(second)
    IN  IF ~m.ok
        THEN IF l1.ok THEN Fail("ErrInvalidTerminalMarker")
             ELSE Fail("ErrInvalidStateModifier")
        ELSE IF ~isTerminalMarker(third) THEN Fail("ErrInvalidTerminalMarker")
        ELSE IF ~l2.ok THEN Fail("ErrMustContainOneLetter")
        ELSE Ok(MkIdentifier(l2.abbr, l2.side, m.state, TRUE))

\* mutant: the third byte is not checked
parseLength3_NoTerminalCheck(first, second, third) ==
    LET m  == classifyModifier(first)
        l1 == classifyLetter(first)
        l2 == classifyLetter(second)
    IN  IF ~m.ok
        THEN IF l1.ok THEN Fail("ErrInvalidTerminalMarker")
             ELSE Fail("ErrInvalidStateModifier")
        ELSE IF ~l2.ok THEN Fail("ErrMustContainOneLetter")
        ELSE Ok(MkIdentifier(l2.abbr, l2.side, m.state, TRUE))

parseLength3(first, second, third) ==
    LET m  == classifyModifier(first)
        l1 == classifyLetter(first)
        l2 == classifyLetter(second)
    IN  IF ~m.ok
        THEN IF l1.ok THEN Fail("ErrInvalidTerminalMarker")
             ELSE Fail("ErrInvalidStateModifier")
        ELSE IF ~l2.ok THEN Fail("ErrMustContainOneLetter")
        ELSE IF ~isTerminalMarker(third) THEN Fail("ErrInvalidTerminalMarker")
        ELSE Ok(MkIdentifier(l2.abbr, l2.side, m.state, TRUE))

\* mutant: the empty input is not rejected before the dispatch
Parse_NoEmptyCheck(str) ==
    IF Len(str) > MaxStringLength THEN Fail("ErrInputTooLong")
    ELSE CASE Len(str) = 1 -> parseLength1(str[1])
           [] Len(str) = 2 -> parseLength2(str[1], str[2])
           [] Len(str) = 3 -> parseLength3(str[1], str[2], str[3])
           [] OTHER        -> Fail("ErrInputTooLong")

Parse(str) ==
    IF Len(str) = 0 THEN Fail("ErrEmptyInput")
    ELSE IF Len(str) > MaxStringLength THEN Fail("ErrInputTooLong")
    ELSE CASE Len(str) = 1 -> parseLength1(str[1])
           [] Len(str) = 2 -> parseLength2(str[1], str[2])
           [] Len(str) = 3 -> parseLength3(str[1], str[2], str[3])
           [] OTHER        -> Fail("ErrInputTooLong")

\* mutant: the error of Parse is dropped
MustParse_NoPanic(str) == Returned(Parse(str).id)

\* MustParse: the panic value is a message built from the error of Parse; it
\* is modelled by the name of that error
MustParse(str) ==
    LET r == Parse(str)
    IN  IF r.err # "nil" THEN Panicked(r.err) ELSE Returned(r.id)

\* mutant: every input is reported valid
Validate_AlwaysNil(str) == "nil"

Validate(str) == Parse(str).err

IsValid(str) == Parse(str).err = "nil"

----------------------------------------------------------------------------
(* The rune-based Pin type *)

\* Pin{}: the zero value of the struct
ZeroPin == [Abbr |-> 0, Side |-> 0, State |-> 0, Terminal |-> FALSE]

MkPin(a, sd, st, t) == [Abbr |-> a, Side |-> sd, State |-> st, Terminal |-> t]

PinOk(p) == [pin |-> p, err |-> "nil"]
PinFail(e) == [pin |-> ZeroPin, err |-> e]

\* U+FFFD, the rune an ill-formed byte decodes to
RuneError == 65533

\* byte k of str is a UTF-8 continuation byte within lo..hi
ContIn(str, k, lo, hi) == k <= Len(str) /\ str[k] >= lo /\ str[k] <= hi

Cont(str, k) == ContIn(str, k, 128, 191)

\* the first rune of a non-empty string and the number of bytes it takes:
\* a well-formed UTF-8 sequence of 1 to 4 bytes, or U+FFFD for one byte
DecodeRune(str) ==
    LET b == str[1]
    IN  IF b < 128 THEN [r |-> b, n |-> 1]
        ELSE IF b >= 194 /\ b <= 223 /\ Cont(str, 2)
             THEN [r |-> (b - 192) * 64 + (str[2] - 128), n |-> 2]
        ELSE IF /\ b >= 224 /\ b <= 239
                /\ ContIn(str, 2, IF b = 224 THEN 160 ELSE 128, IF b = 237 THEN 159 ELSE 191)
                /\ Cont(str, 3)
             THEN [r |-> (b - 224) * 4096 + (str[2] - 128) * 64 + (str[3] - 128), n |-> 3]
        ELSE IF /\ b >= 240 /\ b <= 244
                /\ ContIn(str, 2, IF b = 240 THEN 144 ELSE 128, IF b = 244 THEN 143 ELSE 191)
                /\ Cont(str, 3)
                /\ Cont(str, 4)
             THEN [r |-> (b - 240) * 262144 + (str[2] - 128) * 4096
                             + (str[3] - 128) * 64 + (str[4] - 128),
                   n |-> 4]
        ELSE [r |-> RuneError, n |-> 1]

\* []rune(s)
RECURSIVE Runes(_)
Runes(str) ==
    IF str = <<>> THEN <<>>
    ELSE LET d == DecodeRune(str)
         IN  <<d.r>> \o Runes(SubSeq(str, d.n + 1, Len(str)))

\* The tables of package unicode, on the runes the inputs of the model can
\* form: ASCII, the Cyrillic letters U+0410..U+044F (uppercase up to U+042F,
\* lowercase from U+0430) and U+FFFD.
IsLetter(r) == (r >= 65 /\ r <= 90) \/ (r >= 97 /\ r <= 122) \/ (r >= 1040 /\ r <= 1103)

IsLower(r) == (r >= 97 /\ r <= 122) \/ (r >= 1072 /\ r <= 1103)

ToUpper(r) == IF IsLower(r) THEN r - 32 ELSE r

ToLower(r) == IF (r >= 65 /\ r <= 90) \/ (r >= 1040 /\ r <= 1071) THEN r + 32 ELSE r

\* mutant: what is left after the terminal marker is not looked at
PinParse_NoTrailingCheck(str) ==
    IF Len(str) = 0 THEN PinFail("ErrEmpty")
    ELSE
      LET chars  == Runes(str)
          length == Len(chars)
          state  == IF chars[1] = 43 THEN Enhanced
                    ELSE IF chars[1] = 45 THEN Diminished
                    ELSE Normal
          c1     == IF state = Normal THEN 0 ELSE 1
      IN  IF c1 >= length THEN PinFail("ErrInvalid")
          ELSE
            LET r  == chars[c1 + 1]
                c2 == c1 + 1
            IN  IF ~IsLetter(r) THEN PinFail("ErrInvalidAbbr")
                ELSE IF c2 < length /\ chars[c2 + 1] # 94 THEN PinFail("ErrInvalid")
                ELSE PinOk(MkPin(IF IsLower(r) THEN ToUpper(r) ELSE r,
                                 IF IsLower(r) THEN Second ELSE First,
                                 state, c2 < length))

\* Parse of the Pin type.  cursor is c1 after the optional modifier, c2 after
\* the letter and c3 after the optional terminal marker.
PinParse(str) ==
    IF Len(str) = 0 THEN PinFail("ErrEmpty")
    ELSE
      LET chars  == Runes(str)
          length == Len(chars)
          state  == IF chars[1] = 43 THEN Enhanced
                    ELSE IF chars[1] = 45 THEN Diminished
                    ELSE Normal
          c1     == IF state = Normal THEN 0 ELSE 1
      IN  IF c1 >= length THEN PinFail("ErrInvalid")
          ELSE
            LET r  == chars[c1 + 1]
                c2 == c1 + 1
                c3 == IF c2 < length THEN c2 + 1 ELSE c2
            IN  IF ~IsLetter(r) THEN PinFail("ErrInvalidAbbr")
                ELSE IF c2 < length /\ chars[c2 + 1] # 94 THEN PinFail("ErrInvalid")
                ELSE IF c3 # length THEN PinFail("ErrInvalid")
                ELSE PinOk(MkPin(IF IsLower(r) THEN ToUpper(r) ELSE r,
                                 IF IsLower(r) THEN Second ELSE First,
                                 state, c2 < length))

\* mutant: the letter is emitted as it is stored
PinAppendTo_StoredCase(p, d) ==
    LET d1 == CASE p.State = Enhanced   -> Append(d, 43)
                [] p.State = Diminished -> Append(d, 45)
                [] OTHER                -> d
        d2 == d1 \o RuneToString(p.Abbr)
    IN  IF p.Terminal THEN Append(d2, 94) ELSE d2

PinAppendTo(p, d) ==
    LET d1 == CASE p.State = Enhanced   -> Append(d, 43)
                [] p.State = Diminished -> Append(d, 45)
                [] OTHER                -> d
        r  == IF p.Side = Second THEN ToLower(p.Abbr) ELSE ToUpper(p.Abbr)
        d2 == d1 \o RuneToString(r)
    IN  IF p.Terminal THEN Append(d2, 94) ELSE d2

PinString(p) == PinAppendTo(p, <<>>)

----------------------------------------------------------------------------
(* The client *)

NoOp == [name |-> "none", arg |-> 0]

ZeroParts == [prefix |-> <<>>, letter |-> <<>>, suffix |-> <<>>]

ZeroCensus == [done |-> FALSE, accepted |-> {}, image |-> {}]

\* every Identifier the full constructor returns
AllIdentifiers ==
    {NewIdentifierWithOptions(a, sd, st, t).id :
        a \in 65..90, sd \in {First, Second},
        st \in {Normal, Enhanced, Diminished}, t \in BOOLEAN}

\* K, q, +R^, -p^, n^
SampleIdentifiers ==
    {NewIdentifier(75, First).id,
     NewIdentifier(81, Second).id,
     NewIdentifierWithOptions(82, First, Enhanced, TRUE).id,
     NewIdentifierWithOptions(80, Second, Diminished, TRUE).id,
     NewIdentifierWithOptions(78, Second, Normal, TRUE).id}

\* the lists of n Identifiers to append: every Identifier alone, and the
\* lists of two and more over SampleIdentifiers
IdentifierLists(n) ==
    IF n <= 1 THEN [1..n -> AllIdentifiers] ELSE [1..n -> SampleIdentifiers]

\* the candidate strings of the census: every string of at most 2 bytes,
\* every string of MaxStringLength bytes over CensusBytes, and the longer
\* inputs of Parse
Candidates ==
    UNION {[1..n -> AllBytes] : n \in 0..(MaxStringLength - 1)}
        \cup [1..MaxStringLength -> CensusBytes]
        \cup UNION {InputsOfLen(n) : n \in (MaxStringLength + 1)..MaxLen}

Init ==
    /\ pc = "start"
    /\ id = ZeroIdentifier
    /\ err = "nil"
    /\ out = <<>>
    /\ id2 = ZeroIdentifier
    /\ err2 = "nil"
    /\ verr = "nil"
    /\ valid = FALSE
    /\ mp = Returned(ZeroIdentifier)
    /\ recv = ZeroIdentifier
    /\ op = NoOp
    /\ parts = ZeroParts
    /\ joined = <<>>
    /\ census = ZeroCensus
    /\ perr = "nil"
    /\ pout = <<>>
    /\ \/ /\ from = "Parse"
          /\ \E n \in 0..MaxLen : s \in InputsOfLen(n)
          /\ args = ZeroArgs
          /\ ids = <<>> /\ dst = <<>> /\ buf = <<>>
          /\ ppc = "start" /\ pin = ZeroPin
       \/ /\ from = "New"
          /\ s = <<>>
          /\ args \in [abbr : SampleRunes, side : SampleSides,
                       state : SampleStates, terminal : BOOLEAN]
          /\ ids = <<>> /\ dst = <<>> /\ buf = <<>>
          /\ ppc = "start" /\ pin = ZeroPin
       \/ /\ from = "NewIdentifier"
          /\ s = <<>>
          /\ args \in [abbr : SampleRunes, side : SampleSides,
                       state : {Normal}, terminal : {FALSE}]
          /\ ids = <<>> /\ dst = <<>> /\ buf = <<>>
          /\ ppc = "start" /\ pin = ZeroPin
       \/ /\ from = "AppendTo"
          /\ s = <<>>
          /\ args = ZeroArgs
          /\ \E n \in 1..MaxIds : ids \in IdentifierLists(n)
          /\ dst \in SampleBuffers
          /\ buf = dst
          /\ ppc = "start" /\ pin = ZeroPin
       \/ /\ from = "Census"
          /\ s = <<>>
          /\ args = ZeroArgs
          /\ ids = <<>> /\ dst = <<>> /\ buf = <<>>
          /\ ppc = "start" /\ pin = ZeroPin
       \/ /\ from = "PinParse"
          /\ \E n \in 0..MaxLen : s \in PinInputsOfLen(n)
          /\ args = ZeroArgs
          /\ ids = <<>> /\ dst = <<>> /\ buf = <<>>
          /\ ppc = "start" /\ pin = ZeroPin
       \/ /\ from = "PinLiteral"
          /\ s = <<>>
          /\ args = ZeroArgs
          /\ ids = <<>> /\ dst = <<>> /\ buf = <<>>
          /\ ppc = "literal"
          /\ pin \in [Abbr : SamplePinAbbrs, Side : SampleSides,
                      State : SampleStates, Terminal : BOOLEAN]

\* id, err := Parse(s)
ParseAct ==
    /\ pc = "start"
    /\ from = "Parse"
    /\ LET r == Parse(s)
       IN  /\ id' = r.id
           /\ err' = r.err
    /\ pc' = "parsed"
    /\ UNCHANGED <<from, s, args, out, id2, err2, verr, valid, mp, recv, op,
                 parts, appendVars, census, pinVars>>

\* verr := Validate(s)
ValidateAct ==
    /\ pc = "parsed"
    /\ verr' = Validate(s)
    /\ pc' = "validated"
    /\ UNCHANGED <<from, s, args, id, err, out, id2, err2, valid, mp, recv, op,
                 parts, appendVars, census, pinVars>>

\* valid := IsValid(s)
IsValidAct ==
    /\ pc = "validated"
    /\ valid' = IsValid(s)
    /\ pc' = "isvalid"
    /\ UNCHANGED <<from, s, args, id, err, out, id2, err2, verr, mp, recv, op,
                 parts, appendVars, census, pinVars>>

\* mp := MustParse(s), which may panic
MustParseAct ==
    /\ pc = "isvalid"
    /\ LET r == MustParse(s)
       IN  /\ mp' = r
           /\ pc' = IF r.panic = "nil" THEN "mustparsed" ELSE "panicked"
    /\ UNCHANGED <<from, s, args, id, err, out, id2, err2, verr, valid, recv, op,
                 parts, appendVars, census, pinVars>>

\* id := NewIdentifierWithOptions(abbr, side, state, terminal), which may panic
NewAct ==
    /\ pc = "start"
    /\ from = "New"
    /\ LET r == NewIdentifierWithOptions(args.abbr, args.side, args.state, args.terminal)
       IN  /\ id' = r.id
           /\ err' = r.panic
           /\ pc' = IF r.panic = "nil" THEN "built" ELSE "panicked"
    /\ UNCHANGED <<from, s, args, out, id2, err2, verr, valid, mp, recv, op,
                 parts, appendVars, census, pinVars>>

\* id := NewIdentifier(abbr, side), which may panic
NewIdentifierAct ==
    /\ pc = "start"
    /\ from = "NewIdentifier"
    /\ LET r == NewIdentifier(args.abbr, args.side)
       IN  /\ id' = r.id
           /\ err' = r.panic
           /\ pc' = IF r.panic = "nil" THEN "built" ELSE "panicked"
    /\ UNCHANGED <<from, s, args, out, id2, err2, verr, valid, mp, recv, op,
                 parts, appendVars, census, pinVars>>

\* out := id.String(), on an Identifier that was returned without error
StringAct ==
    /\ pc \in {"parsed", "built", "transformed"}
    /\ err = "nil"
    /\ out' = String(id)
    /\ pc' = "rendered"
    /\ UNCHANGED <<from, s, args, id, err, id2, err2, verr, valid, mp, recv, op,
                 parts, appendVars, census, pinVars>>

\* id2, err2 := Parse(out)
ReparseAct ==
    /\ pc = "rendered"
    /\ LET r == Parse(out)
       IN  /\ id2' = r.id
           /\ err2' = r.err
    /\ pc' = "reparsed"
    /\ UNCHANGED <<from, s, args, id, err, out, verr, valid, mp, recv, op,
                 parts, appendVars, census, pinVars>>

\* parts.prefix := id.Prefix()
PrefixAct ==
    /\ pc = "rendered"
    /\ parts' = [parts EXCEPT !.prefix = Prefix(id)]
    /\ pc' = "prefixed"
    /\ UNCHANGED <<from, s, args, id, err, out, id2, err2, verr, valid, mp, recv, op,
                   appendVars, census, pinVars>>

\* parts.letter := id.Letter()
LetterAct ==
    /\ pc = "prefixed"
    /\ parts' = [parts EXCEPT !.letter = Letter(id)]
    /\ pc' = "lettered"
    /\ UNCHANGED <<from, s, args, id, err, out, id2, err2, verr, valid, mp, recv, op,
                   appendVars, census, pinVars>>

\* parts.suffix := id.Suffix()
SuffixAct ==
    /\ pc = "lettered"
    /\ parts' = [parts EXCEPT !.suffix = Suffix(id)]
    /\ pc' = "suffixed"
    /\ UNCHANGED <<from, s, args, id, err, out, id2, err2, verr, valid, mp, recv, op,
                   appendVars, census, pinVars>>

\* id := the next Identifier of the list; buf = id.AppendTo(buf).  out and
\* joined record id.String() for the comparison the caller makes at the end.
AppendToAct ==
    /\ from = "AppendTo"
    /\ pc \in {"start", "separated"}
    /\ ids # <<>>
    /\ id' = Head(ids)
    /\ ids' = Tail(ids)
    /\ buf' = AppendTo(Head(ids), buf)
    /\ out' = String(Head(ids))
    /\ joined' = joined \o String(Head(ids))
    /\ pc' = "appended"
    /\ UNCHANGED <<from, s, args, err, id2, err2, verr, valid, mp, recv, op,
                   parts, dst, census, pinVars>>

\* buf = append(buf, ' '), before the next Identifier
SeparatorAct ==
    /\ pc = "appended"
    /\ ids # <<>>
    /\ buf' = Append(buf, Separator)
    /\ joined' = Append(joined, Separator)
    /\ pc' = "separated"
    /\ UNCHANGED <<from, s, args, id, err, out, id2, err2, verr, valid, mp, recv, op,
                   parts, ids, dst, census, pinVars>>

\* Parse applied to every candidate string: the strings it accepts and the
\* Identifiers it returns for them
CensusAct ==
    /\ from = "Census"
    /\ ~census.done
    /\ LET acc == {str \in Candidates : Parse(str).err = "nil"}
       IN  census' = [done     |-> TRUE,
                      accepted |-> acc,
                      image    |-> {Parse(str).id : str \in acc}]
    /\ UNCHANGED <<from, s, args, pc, id, err, out, id2, err2, verr, valid, mp, recv, op,
                   parts, appendVars, pinVars>>

\* pin, perr := Parse(s), of the Pin type
PinParseAct ==
    /\ from = "PinParse"
    /\ ppc = "start"
    /\ LET r == PinParse(s)
       IN  /\ pin' = r.pin
           /\ perr' = r.err
    /\ ppc' = "parsed"
    /\ UNCHANGED <<from, s, args, pc, id, err, out, id2, err2, verr, valid, mp, recv, op,
                   parts, appendVars, census, pout>>

\* pout := pin.String(), on a struct literal or on a Pin parsed without error
PinStringAct ==
    /\ \/ ppc = "literal"
       \/ ppc = "parsed" /\ perr = "nil"
    /\ pout' = PinString(pin)
    /\ ppc' = "rendered"
    /\ UNCHANGED <<from, s, args, pc, id, err, out, id2, err2, verr, valid, mp, recv, op,
                   parts, appendVars, census, pin, perr>>

\* the client holds an Identifier that was returned without error or panic
HasIdentifier ==
    \/ pc = "parsed" /\ err = "nil"
    \/ pc \in {"built", "mustparsed", "transformed"}

\* the Identifier the client holds
Receiver == IF pc = "mustparsed" THEN mp.id ELSE id

\* id := Receiver.<name>(arg), with outcome res (an Identifier or a panic).
\* The receiver is a value: the caller's copy (recv) is untouched.  The
\* record of how the receiver was obtained is dropped.
Transform(name, arg, res) ==
    /\ HasIdentifier
    /\ recv' = Receiver
    /\ op' = [name |-> name, arg |-> arg]
    /\ id' = res.id
    /\ err' = res.panic
    /\ pc' = IF res.panic = "nil" THEN "transformed" ELSE "panicked"
    /\ from' = "Transform"
    /\ s' = <<>>
    /\ args' = ZeroArgs
    /\ out' = <<>>
    /\ id2' = ZeroIdentifier
    /\ err2' = "nil"
    /\ verr' = "nil"
    /\ valid' = FALSE
    /\ mp' = Returned(ZeroIdentifier)
    /\ UNCHANGED <<parts, appendVars, census, pinVars>>

EnhanceAct == Transform("Enhance", 0, Returned(Enhance(Receiver)))

DiminishAct == Transform("Diminish", 0, Returned(Diminish(Receiver)))

NormalizeAct == Transform("Normalize", 0, Returned(Normalize(Receiver)))

FlipAct == Transform("Flip", 0, Returned(Flip(Receiver)))

TerminalAct == Transform("Terminal", 0, Returned(Terminal(Receiver)))

NonTerminalAct == Transform("NonTerminal", 0, Returned(NonTerminal(Receiver)))

WithAbbrAct == \E r \in SampleAbbrs : Transform("WithAbbr", r, WithAbbr(Receiver, r))

WithSideAct == \E sd \in SampleSides : Transform("WithSide", sd, WithSide(Receiver, sd))

WithStateAct == \E st \in SampleStates : Transform("WithState", st, WithState(Receiver, st))

WithTerminalAct ==
    \E t \in BOOLEAN :
        Transform("WithTerminal", IF t THEN 1 ELSE 0, Returned(WithTerminal(Receiver, t)))

Next ==
    \/ ParseAct
    \/ ValidateAct
    \/ IsValidAct
    \/ MustParseAct
    \/ NewAct
    \/ NewIdentifierAct
    \/ StringAct
    \/ ReparseAct
    \/ EnhanceAct
    \/ DiminishAct
    \/ NormalizeAct
    \/ FlipAct
    \/ TerminalAct
    \/ NonTerminalAct
    \/ WithAbbrAct
    \/ WithSideAct
    \/ WithStateAct
    \/ WithTerminalAct
    \/ PrefixAct
    \/ LetterAct
    \/ SuffixAct
    \/ AppendToAct
    \/ SeparatorAct
    \/ CensusAct
    \/ PinParseAct
    \/ PinStringAct

Spec == Init /\ [][Next]_vars

----------------------------------------------------------------------------
(* The grammar of the notation, stated on bytes *)

IsAsciiLetter(b) == b \in (65..90) \cup (97..122)
IsModifierByte(b) == b \in {43, 45}
IsTerminalByte(b) == b = 94

\* [modifier] letter [terminal], byte-exact
IsPinShape(str) ==
    \/ Len(str) = 1 /\ IsAsciiLetter(str[1])
    \/ Len(str) = 2 /\ IsModifierByte(str[1]) /\ IsAsciiLetter(str[2])
    \/ Len(str) = 2 /\ IsAsciiLetter(str[1]) /\ IsTerminalByte(str[2])
    \/ Len(str) = 3 /\ IsModifierByte(str[1]) /\ IsAsciiLetter(str[2])
                    /\ IsTerminalByte(str[3])

\* the client has the result of Parse(s) in (id, err)
Parsed == from = "Parse" /\ pc # "start"

\* the client has id.String() in out
Rendered == pc \in {"rendered", "reparsed", "prefixed", "lettered", "suffixed"}

----------------------------------------------------------------------------
(* Claims *)

\* C1: round-trip: for every input s that Parse accepts, Parse(s).String()
\* equals s byte for byte.
C1_RoundTrip == (Parsed /\ Rendered) => out = s

C1_Witness == Parsed /\ pc = "rendered" /\ s = <<45, 107, 94>>

\* C2: inverse round-trip: for every Identifier r built by
\* NewIdentifierWithOptions from a letter, a legal side, a legal state and any
\* terminal flag, Parse(r.String()) returns a nil error and an Identifier
\* equal to r in all four fields.
C2_InverseRoundTrip ==
    /\ (from = "New" /\ pc = "reparsed") => (err2 = "nil" /\ id2 = id)
    /\ (from = "New" /\ pc = "panicked") =>
           ~(/\ IsAsciiLetter(args.abbr)
             /\ args.side \in {First, Second}
             /\ args.state \in {Normal, Enhanced, Diminished})

C2_Witness ==
    /\ from = "New" /\ pc = "reparsed"
    /\ args = [abbr |-> 107, side |-> First, state |-> Diminished, terminal |-> TRUE]

\* C3: acceptance set: Parse(s) succeeds if and only if s is 1 to 3 bytes of
\* the shape [modifier] letter [terminal]; every other byte string is rejected.
C3_AcceptanceSet == Parsed => ((err = "nil") <=> IsPinShape(s))

C3_Witness == Parsed /\ s = <<43, 90, 94>> /\ err = "nil"

\* C4: field mapping: when Parse(s) succeeds, letter is the uppercase form of
\* the letter byte of s, side is First iff that byte is in A..Z (Second iff in
\* a..z), state is Enhanced iff s starts with '+', Diminished iff it starts
\* with '-', Normal iff there is no modifier, terminal iff s ends with '^'.
C4_FieldMapping ==
    (Parsed /\ err = "nil") =>
        LET hasMod == IsModifierByte(s[1])
            lb     == IF hasMod THEN s[2] ELSE s[1]
        IN  /\ id.abbr = (IF lb \in 97..122 THEN lb - 32 ELSE lb)
            /\ id.abbr \in 65..90
            /\ (id.side = First) <=> (lb \in 65..90)
            /\ (id.side = Second) <=> (lb \in 97..122)
            /\ (id.state = Enhanced) <=> (s[1] = 43)
            /\ (id.state = Diminished) <=> (s[1] = 45)
            /\ (id.state = Normal) <=> ~hasMod
            /\ id.terminal <=> (s[Len(s)] = 94)

C4_Witness == Parsed /\ s = <<45, 122>> /\ err = "nil"

\* C5: length boundary: the empty input fails with ErrEmptyInput and every
\* input of 4 or more bytes fails with ErrInputTooLong, whatever its bytes;
\* such inputs never give a grammar error or a success.
C5_LengthBoundary ==
    Parsed => /\ (Len(s) = 0 => (err = "ErrEmptyInput" /\ id = ZeroIdentifier))
              /\ (Len(s) > 3 => (err = "ErrInputTooLong" /\ id = ZeroIdentifier))

\* "+K^K": a valid PIN followed by one more byte
C5_Witness == Parsed /\ s = <<43, 75, 94, 75>> /\ err = "ErrInputTooLong"

\* C6: letter domain: a 1-byte input is accepted iff the byte is in A..Z or
\* a..z; every other single byte fails with ErrMustContainOneLetter.
C6_LetterDomain ==
    (Parsed /\ Len(s) = 1) =>
        IF IsAsciiLetter(s[1]) THEN err = "nil" ELSE err = "ErrMustContainOneLetter"

C6_Witness == Parsed /\ s = <<91>> /\ err = "ErrMustContainOneLetter"

\* C7: security rejection: every input with at least one byte outside
\* {A..Z, a..z, '+', '-', '^'} is rejected, wherever the byte is, and no
\* Identifier is returned for it.
C7_SecurityRejection ==
    (Parsed /\ \E k \in 1..Len(s) :
                  ~(IsAsciiLetter(s[k]) \/ IsModifierByte(s[k]) \/ IsTerminalByte(s[k])))
        => (err # "nil" /\ id = ZeroIdentifier)

\* "K\x00"
C7_Witness == Parsed /\ s = <<75, 0>> /\ err # "nil"

\* C8 as stated: every 2-byte input in which neither byte is a letter fails
\* with ErrMustContainOneLetter.
C8_Original ==
    (Parsed /\ Len(s) = 2 /\ ~IsAsciiLetter(s[1]) /\ ~IsAsciiLetter(s[2]))
        => err = "ErrMustContainOneLetter"

\* C8: a 2-byte input in which neither byte is a letter fails with
\* ErrMustContainOneLetter when its first byte is '+' or '-', and with
\* ErrInvalidStateModifier otherwise.
C8_Amended ==
    (Parsed /\ Len(s) = 2 /\ ~IsAsciiLetter(s[1]) /\ ~IsAsciiLetter(s[2]))
        => IF IsModifierByte(s[1]) THEN err = "ErrMustContainOneLetter"
                                   ELSE err = "ErrInvalidStateModifier"

\* "11"
C8_Witness == Parsed /\ s = <<49, 49>> /\ err = "ErrInvalidStateModifier"

\* C9: invalid state modifier: Parse fails with ErrInvalidStateModifier
\* exactly when the input has 2 or 3 bytes and its first byte is neither '+',
\* '-', nor an ASCII letter, whatever the remaining bytes are.
C9_InvalidStateModifier ==
    Parsed => ((err = "ErrInvalidStateModifier") <=>
                 (/\ Len(s) \in {2, 3}
                  /\ ~IsModifierByte(s[1])
                  /\ ~IsAsciiLetter(s[1])))

\* "^K^"
C9_Witness == Parsed /\ s = <<94, 75, 94>> /\ err = "ErrInvalidStateModifier"

\* C10: a 3-byte input whose first byte is an ASCII letter fails with
\* ErrInvalidTerminalMarker whatever the second and third bytes are; a 3-byte
\* input whose first byte is neither a modifier nor a letter fails with
\* ErrInvalidStateModifier.
C10_Length3LeadingLetter ==
    (Parsed /\ Len(s) = 3) =>
        /\ IsAsciiLetter(s[1]) => err = "ErrInvalidTerminalMarker"
        /\ (~IsAsciiLetter(s[1]) /\ ~IsModifierByte(s[1]))
               => err = "ErrInvalidStateModifier"

\* "K^^"
C10_Witness == Parsed /\ s = <<75, 94, 94>> /\ err = "ErrInvalidTerminalMarker"

\* C11 as stated: whenever Parse fails with ErrInvalidTerminalMarker, the last
\* byte of the input is not '^'.
C11_Original ==
    (Parsed /\ err = "ErrInvalidTerminalMarker") => s[Len(s)] # 94

\* C11: whenever Parse fails with ErrInvalidTerminalMarker, either the last
\* byte of the input is not '^', or the input has 3 bytes and begins with an
\* ASCII letter.
C11_Amended ==
    (Parsed /\ err = "ErrInvalidTerminalMarker") =>
        \/ s[Len(s)] # 94
        \/ Len(s) = 3 /\ IsAsciiLetter(s[1])

\* "K1^": three bytes, a leading letter, and '^' in the last position
C11_Witness == Parsed /\ s = <<75, 49, 94>> /\ err = "ErrInvalidTerminalMarker"

\* C12: a 2-byte input whose first byte is an ASCII letter and whose second
\* byte is not '^' fails with ErrInvalidTerminalMarker; so does every 3-byte
\* input 'modifier, letter, b' with b # '^'.
C12_LetterThenNonTerminal ==
    /\ (Parsed /\ Len(s) = 2 /\ IsAsciiLetter(s[1]) /\ s[2] # 94)
           => err = "ErrInvalidTerminalMarker"
    /\ (Parsed /\ Len(s) = 3 /\ IsModifierByte(s[1]) /\ IsAsciiLetter(s[2]) /\ s[3] # 94)
           => err = "ErrInvalidTerminalMarker"

\* "-k+": modifier, letter, and a modifier byte in the terminal position
C12_Witness == Parsed /\ s = <<45, 107, 43>> /\ err = "ErrInvalidTerminalMarker"

ParseErrors ==
    {"ErrEmptyInput", "ErrInputTooLong", "ErrMustContainOneLetter",
     "ErrInvalidStateModifier", "ErrInvalidTerminalMarker"}

IsValidIdentifier(i) ==
    /\ i.abbr \in 65..90
    /\ i.side \in {First, Second}
    /\ i.state \in {Normal, Enhanced, Diminished}
    /\ i.terminal \in BOOLEAN

\* C13: failure shape: Parse returns either a valid Identifier with a nil
\* error, or the zero Identifier with exactly one of the five parsing
\* sentinel errors; on error no field of the Identifier comes from the input.
C13_FailureShape ==
    Parsed => \/ err = "nil" /\ IsValidIdentifier(id)
              \/ err \in ParseErrors /\ id = ZeroIdentifier

\* "K1": the letter is classified before the error is found
C13_Witness == Parsed /\ s = <<75, 49>> /\ err = "ErrInvalidTerminalMarker" /\ id = ZeroIdentifier

\* C14: validator agreement: Validate(s) returns exactly the error that
\* Parse(s) returns, and IsValid(s) is true iff Parse(s) returns a nil error.
C14_ValidatorAgreement ==
    /\ (Parsed /\ pc \in {"validated", "isvalid", "mustparsed"}) => verr = err
    /\ (Parsed /\ pc \in {"isvalid", "mustparsed"}) => (valid <=> (err = "nil"))
    /\ (Parsed /\ pc = "panicked") => (verr = err /\ ~valid)

\* "+": a modifier without a letter
C14_Witness ==
    /\ Parsed /\ pc = "isvalid" /\ s = <<43>>
    /\ verr = "ErrMustContainOneLetter" /\ ~valid

\* C15: MustParse panics exactly on the inputs for which Parse returns an
\* error, the empty input included, and on every other input returns the
\* same Identifier as Parse.
C15_MustParse ==
    /\ (Parsed /\ pc = "panicked") => (err # "nil" /\ mp.panic # "nil")
    /\ (Parsed /\ pc = "mustparsed") => (err = "nil" /\ mp.panic = "nil" /\ mp.id = id)

\* MustParse("") has panicked
C15_Witness == Parsed /\ pc = "panicked" /\ s = <<>> /\ mp.panic = "ErrEmptyInput"

\* the uppercase form of an ASCII letter
UpperOf(c) == IF c \in 97..122 THEN c - 32 ELSE c

\* C16: NewIdentifier(c, side) equals NewIdentifierWithOptions(c, side,
\* Normal, false); the stored letter is the uppercase form of c, and the
\* side is the side argument, never inferred from the case of c, so that
\* the rendering is uppercase for First and lowercase for Second.
C16_ConstructorDefaults ==
    (from = "NewIdentifier" /\ pc # "start") =>
        /\ [id |-> id, panic |-> err]
              = NewIdentifierWithOptions(args.abbr, args.side, Normal, FALSE)
        /\ pc # "panicked" =>
              /\ id = MkIdentifier(UpperOf(args.abbr), args.side, Normal, FALSE)
              /\ id.abbr \in 65..90
        /\ Rendered =>
              out = <<IF args.side = First THEN UpperOf(args.abbr)
                                           ELSE UpperOf(args.abbr) + 32>>

\* NewIdentifier('k', First) renders "K"
C16_Witness ==
    /\ from = "NewIdentifier" /\ pc = "rendered"
    /\ args.abbr = 107 /\ args.side = First /\ out = <<75>>

\* the constructor was handed a letter, side or state outside its domain
ArgsOutOfDomain ==
    \/ ~IsAsciiLetter(args.abbr)
    \/ args.side \notin {First, Second}
    \/ args.state \notin {Normal, Enhanced, Diminished}

ConstructionErrors == {"ErrInvalidAbbr", "ErrInvalidSide", "ErrInvalidState"}

\* C17 as stated: given an out-of-domain letter, side or state, the minimal
\* and the full constructor report the failure as a value and do not abort.
C17_Original ==
    (from \in {"New", "NewIdentifier"} /\ pc # "start" /\ ArgsOutOfDomain)
        => pc # "panicked"

\* C17: given an out-of-domain letter, side or state, the minimal and the
\* full constructor abort: they panic with a validation error as panic value
\* and return no Identifier.
C17_Amended ==
    (from \in {"New", "NewIdentifier"} /\ pc # "start" /\ ArgsOutOfDomain)
        => (pc = "panicked" /\ err \in ConstructionErrors /\ id = ZeroIdentifier)

\* NewIdentifier('K', Side(2)) has panicked
C17_Witness ==
    /\ from = "NewIdentifier" /\ pc = "panicked"
    /\ args.abbr = 75 /\ args.side = 2 /\ err = "ErrInvalidSide"

\* C18: NewIdentifierWithOptions, WithAbbr, WithSide and WithState panic and
\* produce no Identifier when given a rune that is no ASCII letter, a Side
\* other than First/Second or a State other than Normal/Enhanced/Diminished;
\* when several arguments of the full constructor are invalid the panic
\* value is the letter error first, then ErrInvalidSide, then ErrInvalidState.
C18_ConstructionRejects ==
    /\ (from = "New" /\ pc # "start" /\ ArgsOutOfDomain) =>
          /\ pc = "panicked"
          /\ id = ZeroIdentifier
          /\ err = IF ~IsAsciiLetter(args.abbr) THEN "ErrInvalidAbbr"
                   ELSE IF args.side \notin {First, Second} THEN "ErrInvalidSide"
                   ELSE "ErrInvalidState"
    /\ (from = "Transform" /\ op.name = "WithAbbr" /\ ~IsAsciiLetter(op.arg)) =>
          (pc = "panicked" /\ id = ZeroIdentifier /\ err = "ErrInvalidAbbr")
    /\ (from = "Transform" /\ op.name = "WithSide" /\ op.arg \notin {First, Second}) =>
          (pc = "panicked" /\ id = ZeroIdentifier /\ err = "ErrInvalidSide")
    /\ (from = "Transform" /\ op.name = "WithState"
            /\ op.arg \notin {Normal, Enhanced, Diminished}) =>
          (pc = "panicked" /\ id = ZeroIdentifier /\ err = "ErrInvalidState")

\* NewIdentifierWithOptions('K', Side(2), State(3), true): side and state
\* are both invalid
C18_Witness ==
    /\ from = "New" /\ pc = "panicked"
    /\ args = [abbr |-> 75, side |-> 2, state |-> 3, terminal |-> TRUE]
    /\ err = "ErrInvalidSide"

\* C19: validity invariant: every Identifier obtained from a successful
\* Parse, MustParse, NewIdentifier or NewIdentifierWithOptions, followed by
\* any finite sequence of transformations that do not panic, has its letter
\* in A..Z, its side in {First, Second} and its state in {Normal, Enhanced,
\* Diminished}.
C19_ValidityInvariant ==
    /\ (pc \notin {"start", "panicked"} /\ err = "nil") => IsValidIdentifier(id)
    /\ pc = "mustparsed" => IsValidIdentifier(mp.id)
    /\ (from = "Transform" /\ pc # "panicked") => IsValidIdentifier(recv)

\* a second transformation: WithSide(Second) on an Identifier that an
\* earlier transformation made Diminished and terminal
C19_Witness ==
    /\ from = "Transform" /\ pc = "transformed"
    /\ op = [name |-> "WithSide", arg |-> Second]
    /\ recv = MkIdentifier(75, First, Diminished, TRUE)
    /\ id = MkIdentifier(75, Second, Diminished, TRUE)

\* the fields of the result r that may differ from those of the receiver i
FrameOf(name, i, r) ==
    CASE name \in {"Enhance", "Diminish", "Normalize", "WithState"}
            -> r = [i EXCEPT !.state = r.state]
      [] name \in {"Flip", "WithSide"}
            -> r = [i EXCEPT !.side = r.side]
      [] name \in {"Terminal", "NonTerminal", "WithTerminal"}
            -> r = [i EXCEPT !.terminal = r.terminal]
      [] name = "WithAbbr"
            -> r = [i EXCEPT !.abbr = r.abbr]
      [] OTHER -> FALSE

\* C20: immutability and frame: in every step that applies a transformation,
\* the result differs from the receiver in the target field only (state for
\* Enhance/Diminish/Normalize/WithState, side for Flip/WithSide, terminal for
\* Terminal/NonTerminal/WithTerminal, letter for WithAbbr), and the receiver
\* has its four original field values after the call, also in chained calls.
C20_Frame ==
    [][pc' = "transformed" =>
          /\ recv' = Receiver
          /\ FrameOf(op'.name, Receiver, id')]_vars

\* Enhance on a Diminished terminal Identifier obtained by earlier
\* transformations
C20_Witness ==
    /\ from = "Transform" /\ pc = "transformed"
    /\ op.name = "Enhance"
    /\ recv = MkIdentifier(90, Second, Diminished, TRUE)
    /\ id = MkIdentifier(90, Second, Enhanced, TRUE)

\* C21: serialization content and order: for every valid Identifier,
\* String() is Prefix() followed by Letter() followed by Suffix(); the prefix
\* is '+' for Enhanced, '-' for Diminished and empty for Normal, the letter is
\* the stored uppercase letter for First and its lowercase form for Second,
\* and the suffix is '^' iff the Identifier is terminal.
C21_SerializationOrder ==
    pc = "suffixed" =>
        /\ out = parts.prefix \o parts.letter \o parts.suffix
        /\ parts.prefix = (IF id.state = Enhanced THEN <<43>>
                           ELSE IF id.state = Diminished THEN <<45>>
                           ELSE <<>>)
        /\ id.abbr \in 65..90
        /\ parts.letter = <<IF id.side = First THEN id.abbr ELSE id.abbr + 32>>
        /\ parts.suffix = (IF id.terminal THEN <<94>> ELSE <<>>)

\* "-r^" and its three parts
C21_Witness ==
    /\ pc = "suffixed"
    /\ id = MkIdentifier(82, Second, Diminished, TRUE)
    /\ out = <<45, 114, 94>>
    /\ parts = [prefix |-> <<45>>, letter |-> <<114>>, suffix |-> <<94>>]

\* C22: output length: for every valid Identifier the length of String() is
\* 1, plus 1 if the state is not Normal, plus 1 if it is terminal; it is
\* always 1, 2 or 3 and never above MaxStringLength.
C22_OutputLength ==
    Rendered =>
        /\ Len(out) = 1 + (IF id.state # Normal THEN 1 ELSE 0)
                        + (IF id.terminal THEN 1 ELSE 0)
        /\ Len(out) \in {1, 2, 3}
        /\ Len(out) <= MaxStringLength

\* a rendering of full length, of an Identifier obtained by a transformation
C22_Witness ==
    /\ from = "Transform" /\ pc = "rendered"
    /\ id.state = Enhanced /\ id.terminal /\ Len(out) = 3

\* C23: AppendTo only appends: after every AppendTo the buffer is the
\* caller's initial buffer followed by the String() values of the appended
\* Identifiers and the caller's separators, in call order; the bytes that
\* were in the buffer are unchanged and the last bytes are id.String().
C23_AppendOnly ==
    (from = "AppendTo" /\ pc \in {"appended", "separated"}) =>
        /\ buf = dst \o joined
        /\ SubSeq(buf, 1, Len(dst)) = dst
        /\ pc = "appended" =>
               SubSeq(buf, Len(buf) - Len(out) + 1, Len(buf)) = out

\* K, q and +R^ appended to "P: ": the buffer holds "P: K q +R^"
C23_Witness ==
    /\ from = "AppendTo" /\ pc = "appended" /\ ids = <<>>
    /\ dst = <<80, 58, 32>>
    /\ buf = <<80, 58, 32, 75, 32, 113, 32, 43, 82, 94>>

\* str with the case of its ASCII letters swapped
SwapLetterCase(str) ==
    [k \in 1..Len(str) |->
        IF str[k] \in 65..90 THEN str[k] + 32
        ELSE IF str[k] \in 97..122 THEN str[k] - 32
        ELSE str[k]]

\* C24: Flip toggles the side: the result has side Second if the receiver
\* has First and First if it has Second, flipping the result gives the
\* receiver back, and the rendering of the result is the rendering of the
\* receiver with the case of the letter byte swapped and every other byte
\* unchanged.
C24_FlipInvolution ==
    (from = "Transform" /\ op.name = "Flip" /\ pc # "panicked") =>
        /\ recv.side = First => id.side = Second
        /\ recv.side = Second => id.side = First
        /\ Flip(id) = recv
        /\ Rendered =>
              /\ out = SwapLetterCase(String(recv))
              /\ out # String(recv)

\* Flip of "+k^" renders "+K^"
C24_Witness ==
    /\ from = "Transform" /\ op.name = "Flip" /\ pc = "rendered"
    /\ recv = MkIdentifier(75, Second, Enhanced, TRUE)
    /\ out = <<43, 75, 94>>

\* the runes that are letters, among those the inputs can form
LetterRunes == (65..90) \cup (97..122) \cup (1040..1103)

UpperRuneOf(c) == IF c \in (97..122) \cup (1072..1103) THEN c - 32 ELSE c
LowerRuneOf(c) == IF c \in (65..90) \cup (1040..1071) THEN c + 32 ELSE c

\* C26: rendering of a Pin built as a struct literal: the letter is emitted
\* in the case dictated by Side alone (lowercase for Second, uppercase for
\* First) whatever the case of the stored Abbr, after '+' for Enhanced or '-'
\* for Diminished, and before '^' iff Terminal.
C26_PinRendering ==
    (from = "PinLiteral" /\ ppc = "rendered" /\ pin.Side \in {First, Second}) =>
        pout = (IF pin.State = Enhanced THEN <<43>>
                ELSE IF pin.State = Diminished THEN <<45>>
                ELSE <<>>)
               \o RuneToString(IF pin.Side = Second THEN LowerRuneOf(pin.Abbr)
                                                    ELSE UpperRuneOf(pin.Abbr))
               \o (IF pin.Terminal THEN <<94>> ELSE <<>>)

\* Pin{Abbr: 'k', Side: First, State: Enhanced, Terminal: true} renders "+K^"
C26_Witness ==
    /\ from = "PinLiteral" /\ ppc = "rendered"
    /\ pin = MkPin(107, First, Enhanced, TRUE)
    /\ pout = <<43, 75, 94>>

\* C27: missing letter after a modifier: every input of 2 or 3 bytes whose
\* first byte is '+' or '-' and whose second byte is no ASCII letter fails
\* with ErrMustContainOneLetter, whatever the second and third bytes are.
C27_MissingLetterAfterModifier ==
    (Parsed /\ Len(s) \in {2, 3} /\ IsModifierByte(s[1]) /\ ~IsAsciiLetter(s[2]))
        => (err = "ErrMustContainOneLetter" /\ id = ZeroIdentifier)

\* "+^1": the second byte is '^' and the third byte is no terminal marker
C27_Witness == Parsed /\ s = <<43, 94, 49>> /\ err = "ErrMustContainOneLetter"

StateSetters == {"Enhance", "Diminish", "Normalize", "WithState"}

TerminalSetters == {"Terminal", "NonTerminal", "WithTerminal"}

\* C28: the state and terminal setters are absolute: Enhance, Diminish and
\* Normalize give the result of WithState(Enhanced), WithState(Diminished)
\* and WithState(Normal) from any state, Terminal and NonTerminal give the
\* result of WithTerminal(true) and WithTerminal(false), each gives the same
\* result when applied again, and every other transformation leaves the
\* state and the terminal flag as they were, so that after any sequence both
\* are those set by the last setter of each.
C28_AbsoluteSetters ==
    (from = "Transform" /\ pc # "panicked") =>
        /\ op.name = "Enhance" =>
              /\ Returned(id) = WithState(recv, Enhanced)
              /\ id.state = Enhanced /\ Enhance(id) = id
        /\ op.name = "Diminish" =>
              /\ Returned(id) = WithState(recv, Diminished)
              /\ id.state = Diminished /\ Diminish(id) = id
        /\ op.name = "Normalize" =>
              /\ Returned(id) = WithState(recv, Normal)
              /\ id.state = Normal /\ Normalize(id) = id
        /\ op.name = "Terminal" =>
              /\ id = WithTerminal(recv, TRUE)
              /\ id.terminal /\ Terminal(id) = id
        /\ op.name = "NonTerminal" =>
              /\ id = WithTerminal(recv, FALSE)
              /\ ~id.terminal /\ NonTerminal(id) = id
        /\ op.name = "WithState" =>
              (id.state = op.arg /\ WithState(id, op.arg) = Returned(id))
        /\ op.name = "WithTerminal" =>
              (id.terminal = (op.arg = 1) /\ WithTerminal(id, op.arg = 1) = id)
        /\ op.name \notin StateSetters => id.state = recv.state
        /\ op.name \notin TerminalSetters => id.terminal = recv.terminal

\* Diminish on an Enhanced Identifier, after a terminal setter
C28_Witness ==
    /\ from = "Transform" /\ pc = "transformed"
    /\ op.name = "Diminish"
    /\ recv = MkIdentifier(65, First, Enhanced, TRUE)
    /\ id = MkIdentifier(65, First, Diminished, TRUE)

\* C29: round-trip after transformation: for every Identifier reached from
\* a constructor or a successful Parse by a sequence of transformations
\* that do not panic, Parse accepts String() and returns an equal Identifier.
C29_RoundTripAfterTransform ==
    pc = "reparsed" => (err2 = "nil" /\ id2 = id /\ IsValidIdentifier(id2))

\* WithAbbr('k') on "-z^" gives "-k^", which parses back
C29_Witness ==
    /\ from = "Transform" /\ pc = "reparsed"
    /\ op = [name |-> "WithAbbr", arg |-> 107]
    /\ recv = MkIdentifier(90, Second, Diminished, TRUE)
    /\ out = <<45, 107, 94>>
    /\ id2 = MkIdentifier(75, Second, Diminished, TRUE)

\* 26 letters x 2 sides x 3 states x 2 terminal values
ValidIdentifiers ==
    [abbr : 65..90, side : {First, Second},
     state : {Normal, Enhanced, Diminished}, terminal : BOOLEAN]

\* C30: unambiguous encoding: Parse maps the accepted strings one-to-one
\* onto the valid Identifiers: the Identifiers returned for the accepted
\* strings are exactly the 312 valid ones, and there are as many accepted
\* strings as Identifiers returned, namely 312.
C30_Bijection ==
    census.done =>
        /\ census.image = ValidIdentifiers
        /\ Cardinality(census.accepted) = Cardinality(census.image)
        /\ Cardinality(census.accepted) = 312
        /\ \A str \in census.accepted : IsPinShape(str)

\* the census is done and "-z^" is among the accepted strings
C30_Witness ==
    /\ census.done
    /\ <<45, 122, 94>> \in census.accepted
    /\ MkIdentifier(90, Second, Diminished, TRUE) \in census.image

====
